---- MODULE Spec2Model ----
(***************************************************************************)
(* Model of the Nano Banana AI Editor: the App component's state cells and *)
(* handlers (src/App.tsx) and the edit request client                      *)
(* (src/services/geminiService.ts).                                        *)
(*                                                                         *)
(* JavaScript strings that the code inspects (MIME types, prompts, data    *)
(* URLs, base64 payloads) are sequences of one-character strings, so that  *)
(* startsWith, trim, split and template concatenation are computed.        *)
(* A nullable cell is a sequence of length 0 (null) or 1 (the value).      *)
(***************************************************************************)
EXTENDS Naturals, Sequences, FiniteSets

VARIABLES
    originalImage,   \* useState<ImageState | null>
    editedImageUrl,  \* useState<string | null>
    prompt,          \* useState<string>
    isLoading,       \* useState<boolean>
    error,           \* useState<string | null>
    reads,           \* suspended handleFileChange calls (await fileToBase64)
    requests,        \* suspended handleSubmit calls (await editImageWithGemini)
    resultOf,        \* history: the request whose result editedImageUrl holds
    last,            \* history: the handler step that produced this state
    svc              \* one isolated call of editImageWithGemini

vars == <<originalImage, editedImageUrl, prompt, isLoading, error,
          reads, requests, resultOf, last, svc>>

appVars == <<originalImage, editedImageUrl, prompt, isLoading, error,
             reads, requests, resultOf, last>>

----------------------------------------------------------------------------
(* Bounds *)

MaxParts == 3      \* longest list of response parts
MaxReads == 2      \* file reads in flight at once
MaxRequests == 2   \* edit requests in flight at once

----------------------------------------------------------------------------
(* Values *)

Null == <<>>
Some(x) == <<x>>

ImagePrefix == <<"i", "m", "a", "g", "e", "/">>
Comma == ","

TypePng == <<"i", "m", "a", "g", "e", "/", "p", "n", "g">>
TypeJpeg == <<"i", "m", "a", "g", "e", "/", "j", "p", "g">>
TypeText == <<"t", "e", "x", "t", "/", "p", "l", "a", "i", "n">>
TypeBare == <<"i", "m", "a", "g", "e">>
TypeNone == <<>>

\* A File: name, declared type, and the base64 of its bytes.
FilePhoto == [name |-> "photo.png", type |-> TypePng, bytes |-> <<"Q", "U", "I">>]
FileCat == [name |-> "cat.jpg", type |-> TypeJpeg, bytes |-> <<"/", "9", "j">>]
FileNotes == [name |-> "notes.txt", type |-> TypeText, bytes |-> <<"a", "G", "k">>]
FileBare == [name |-> "image", type |-> TypeBare, bytes |-> <<"e", "H", "g">>]
FileBlob == [name |-> "blob", type |-> TypeNone, bytes |-> <<"A", "A">>]

Files == {FilePhoto, FileCat, FileNotes, FileBare, FileBlob}

Whitespace == {" ", "\n", "\t"}

Prompts == { <<>>, <<" ">>, <<"\n", " ">>, <<"h", "a", "t">>, <<" ", "h", "i", "\t">> }

MsgInvalidFile == "Please upload a valid image file (PNG, JPG, etc.)."
MsgMissingInputs == "Please upload an image and enter a prompt."
MsgEditFailed == "Failed to edit image. Please try again."
MsgNoImageData == "No image data found in the API response."
MsgGeminiFailed == "Failed to generate image with Gemini API."

----------------------------------------------------------------------------
(* String functions *)

\* String.prototype.startsWith
StartsWith(s, p) == Len(s) >= Len(p) /\ SubSeq(s, 1, Len(p)) = p

RECURSIVE TrimStart(_)
TrimStart(s) ==
    IF s # <<>> /\ Head(s) \in Whitespace THEN TrimStart(Tail(s)) ELSE s

RECURSIVE TrimEnd(_)
TrimEnd(s) ==
    IF s # <<>> /\ s[Len(s)] \in Whitespace
    THEN TrimEnd(SubSeq(s, 1, Len(s) - 1))
    ELSE s

\* Variant: the prompt tested as typed, !prompt instead of !prompt.trim().
Trim_Untrimmed(s) == s

\* String.prototype.trim
Trim(s) == TrimEnd(TrimStart(s))

\* String.prototype.split(','): the pieces between commas, in order.
RECURSIVE SplitComma(_, _)
SplitComma(s, piece) ==
    IF s = <<>> THEN <<piece>>
    ELSE IF Head(s) = Comma THEN <<piece>> \o SplitComma(Tail(s), <<>>)
    ELSE SplitComma(Tail(s), Append(piece, Head(s)))

Split(s) == SplitComma(s, <<>>)

\* `data:${mimeType};base64,${payload}`
DataUrl(mimeType, payload) ==
    <<"d", "a", "t", "a", ":">> \o mimeType
        \o <<";", "b", "a", "s", "e", "6", "4", ",">> \o payload

\* url.split(',')[1]; undefined (here the text "undefined") without a comma.
Base64Of(url) ==
    IF Len(Split(url)) >= 2 THEN Split(url)[2]
    ELSE <<"u", "n", "d", "e", "f", "i", "n", "e", "d">>

\* fileToBase64 when the read succeeds: the file as a data URL.
fileToBase64(file) == DataUrl(file.type, file.bytes)

----------------------------------------------------------------------------
(* The edit request client *)

DataFoo == <<"Z", "m", "9", "v">>
DataBar == <<"Y", "m", "F", "y">>
DataUndefined == <<"u", "n", "d", "e", "f", "i", "n", "e", "d">>

\* A response part: a text part, or a part with inlineData whose data field
\* is a base64 string or is absent (Blob.data is optional).
TextPart == [inlineData |-> FALSE, data |-> <<>>]
InlinePart(d) == [inlineData |-> TRUE, data |-> d]

Parts == {TextPart, InlinePart(DataFoo), InlinePart(DataBar), InlinePart(DataUndefined)}

RECURSIVE SeqsUpTo(_, _)
SeqsUpTo(S, n) ==
    IF n = 0 THEN {<<>>}
    ELSE LET shorter == SeqsUpTo(S, n - 1)
         IN shorter \cup {Append(q, x) : q \in {r \in shorter : Len(r) = n - 1}, x \in S}

\* What generateContent does: it throws, or returns a response whose
\* candidates, first candidate, content or parts may be missing.
Shapes == {"noCandidates", "emptyCandidates", "noContent", "noParts"}

Responses ==
    {[threw |-> TRUE, shape |-> "threw", parts |-> <<>>]}
    \cup {[threw |-> FALSE, shape |-> s, parts |-> <<>>] : s \in Shapes}
    \cup {[threw |-> FALSE, shape |-> "parts", parts |-> ps] : ps \in SeqsUpTo(Parts, MaxParts)}

\* response.candidates?.[0]?.content?.parts || []
PartsOf(response) == IF response.shape = "parts" THEN response.parts ELSE <<>>

\* How the returned promise settles: with the data, or with an Error whose
\* message is `message` (`thrown` is what the try block threw).
Resolved(d) == [kind |-> "resolved", data |-> d, message |-> "", thrown |-> "none"]
Rejected(m, inner) == [kind |-> "rejected", data |-> <<>>, message |-> m, thrown |-> inner]
NotCalled == [kind |-> "notCalled", data |-> <<>>, message |-> "", thrown |-> "none"]

\* Variant: the scan keeps going and ends with the last inline part.
RECURSIVE ScanParts_LastMatch(_)
ScanParts_LastMatch(parts) ==
    IF parts = <<>> THEN [found |-> FALSE, data |-> <<>>]
    ELSE IF parts[Len(parts)].inlineData
         THEN [found |-> TRUE, data |-> parts[Len(parts)].data]
    ELSE ScanParts_LastMatch(SubSeq(parts, 1, Len(parts) - 1))

\* for (const part of parts) if (part.inlineData) return part.inlineData.data;
\* falls through to the throw of MsgNoImageData.
RECURSIVE ScanParts(_)
ScanParts(parts) ==
    IF parts = <<>> THEN [found |-> FALSE, data |-> <<>>]
    ELSE IF Head(parts).inlineData THEN [found |-> TRUE, data |-> Head(parts).data]
    ELSE ScanParts(Tail(parts))

\* The try block and its catch: whatever is thrown inside the try, the
\* SDK's error or the function's own "no image data" error, is logged and
\* replaced by the one generic error.
editImageWithGemini(response) ==
    LET thrown == IF response.threw THEN "sdk error"
                  ELSE IF ~ScanParts(PartsOf(response)).found THEN MsgNoImageData
                  ELSE "none"
    IN IF thrown # "none" THEN Rejected(MsgGeminiFailed, thrown)
       ELSE Resolved(ScanParts(PartsOf(response)).data)

\* Every way a call of editImageWithGemini can settle.
SettledResults == {editImageWithGemini(response) : response \in Responses}

----------------------------------------------------------------------------
(* The App component *)

Init ==
    /\ originalImage = Null
    /\ editedImageUrl = Null
    /\ prompt = <<>>
    /\ isLoading = FALSE
    /\ error = Null
    /\ reads = <<>>
    /\ requests = <<>>
    /\ resultOf = Null
    /\ last = [op |-> "init", outcome |-> "none"]
    /\ svc = [response |-> [threw |-> TRUE, shape |-> "threw", parts |-> <<>>],
              result |-> NotCalled]

Remove(s, i) == SubSeq(s, 1, i - 1) \o SubSeq(s, i + 1, Len(s))

\* Variant: no return after the invalid-file message, so every selected
\* file goes on to be read.
handleFileChange_NoReturn(file) ==
    /\ Len(reads) < MaxReads
    /\ error' = Null
    /\ editedImageUrl' = Null
    /\ resultOf' = Null
    /\ reads' = Append(reads, file)
    /\ requests' = [i \in 1..Len(requests) |->
                       [requests[i] EXCEPT !.beforeChoice = TRUE]]
    /\ last' = [op |-> "handleFileChange", outcome |-> "accepted"]
    /\ UNCHANGED <<originalImage, prompt, isLoading, svc>>

\* handleFileChange up to its await, for a selection of one file.
handleFileChange(file) ==
    IF ~StartsWith(file.type, ImagePrefix)
    THEN /\ error' = Some(MsgInvalidFile)
         /\ last' = [op |-> "handleFileChange", outcome |-> "InvalidFileType"]
         /\ UNCHANGED <<originalImage, editedImageUrl, prompt, isLoading,
                        reads, requests, resultOf, svc>>
    ELSE /\ Len(reads) < MaxReads
         /\ error' = Null
         /\ editedImageUrl' = Null
         /\ resultOf' = Null
         /\ reads' = Append(reads, file)
         /\ requests' = [i \in 1..Len(requests) |->
                            [requests[i] EXCEPT !.beforeChoice = TRUE]]
         /\ last' = [op |-> "handleFileChange", outcome |-> "accepted"]
         /\ UNCHANGED <<originalImage, prompt, isLoading, svc>>

\* The file input is rendered only inside ImagePlaceholder, that is while
\* originalImage is null.
SelectFile == \E file \in Files : originalImage = Null /\ handleFileChange(file)

\* handleFileChange after its await: the read of reads[i] succeeded.
FileReadResolves ==
    \E i \in 1..Len(reads) :
        /\ originalImage' = Some([file |-> reads[i], url |-> fileToBase64(reads[i])])
        /\ reads' = Remove(reads, i)
        /\ last' = [op |-> "fileRead", outcome |-> "loaded"]
        /\ UNCHANGED <<editedImageUrl, prompt, isLoading, error, requests, resultOf, svc>>

\* handleFileChange after its await: the read of reads[i] failed.  There is
\* no try around the await, so the handler's promise rejects unhandled.
FileReadRejects ==
    \E i \in 1..Len(reads) :
        /\ reads' = Remove(reads, i)
        /\ last' = [op |-> "fileRead", outcome |-> "ReadFailure"]
        /\ UNCHANGED <<originalImage, editedImageUrl, prompt, isLoading, error,
                       requests, resultOf, svc>>

handleRemoveImage ==
    /\ originalImage' = Null
    /\ editedImageUrl' = Null
    /\ error' = Null
    /\ resultOf' = Null
    /\ last' = [op |-> "handleRemoveImage", outcome |-> "removed"]
    /\ UNCHANGED <<prompt, isLoading, reads, requests, svc>>

\* The Remove button is rendered only while originalImage is set.
ClickRemove == originalImage # Null /\ handleRemoveImage

\* The textarea is disabled while isLoading or without an image.
EditPrompt ==
    \E p \in Prompts :
        /\ ~(isLoading \/ originalImage = Null)
        /\ prompt' = p
        /\ last' = [op |-> "setPrompt", outcome |-> "edited"]
        /\ UNCHANGED <<originalImage, editedImageUrl, isLoading, error,
                       reads, requests, resultOf, svc>>

\* handleSubmit up to its await.
handleSubmit ==
    IF originalImage = Null \/ Trim(prompt) = <<>>
    THEN /\ error' = Some(MsgMissingInputs)
         /\ last' = [op |-> "handleSubmit", outcome |-> "MissingInputs"]
         /\ UNCHANGED <<originalImage, editedImageUrl, prompt, isLoading,
                        reads, requests, resultOf, svc>>
    ELSE /\ Len(requests) < MaxRequests
         /\ isLoading' = TRUE
         /\ error' = Null
         /\ editedImageUrl' = Null
         /\ resultOf' = Null
         /\ requests' = Append(requests,
                [base64ImageData |-> Base64Of(originalImage[1].url),
                 mimeType |-> originalImage[1].file.type,
                 prompt |-> prompt,
                 file |-> originalImage[1].file,
                 beforeChoice |-> FALSE])
         /\ last' = [op |-> "handleSubmit", outcome |-> "requested"]
         /\ UNCHANGED <<originalImage, prompt, reads, svc>>

\* Variant: the button stays enabled while a request is loading.
GenerateDisabled_NoLoading == originalImage = Null \/ Trim(prompt) = <<>>

\* disabled={isLoading || !originalImage || !prompt.trim()}
GenerateDisabled == isLoading \/ originalImage = Null \/ Trim(prompt) = <<>>

ClickGenerate == ~GenerateDisabled /\ handleSubmit

\* Variant: the catch logs the error and sets no message.
handleSubmitResume_NoMessage(i, result) ==
    /\ IF result.kind = "resolved"
       THEN /\ editedImageUrl' = Some(DataUrl(requests[i].mimeType, result.data))
            /\ resultOf' = Some([file |-> requests[i].file,
                                 beforeChoice |-> requests[i].beforeChoice])
            /\ error' = error
            /\ last' = [op |-> "requestSettles", outcome |-> "resolved"]
       ELSE /\ last' = [op |-> "requestSettles", outcome |-> "rejected"]
            /\ UNCHANGED <<editedImageUrl, resultOf, error>>
    /\ isLoading' = FALSE
    /\ requests' = Remove(requests, i)
    /\ UNCHANGED <<originalImage, prompt, reads, svc>>

\* Variant: setIsLoading(false) as the last statement of the try instead of
\* in a finally.
handleSubmitResume_NoFinally(i, result) ==
    /\ IF result.kind = "resolved"
       THEN /\ editedImageUrl' = Some(DataUrl(requests[i].mimeType, result.data))
            /\ resultOf' = Some([file |-> requests[i].file,
                                 beforeChoice |-> requests[i].beforeChoice])
            /\ error' = error
            /\ isLoading' = FALSE
            /\ last' = [op |-> "requestSettles", outcome |-> "resolved"]
       ELSE /\ error' = Some(MsgEditFailed)
            /\ last' = [op |-> "requestSettles", outcome |-> "rejected"]
            /\ UNCHANGED <<editedImageUrl, resultOf, isLoading>>
    /\ requests' = Remove(requests, i)
    /\ UNCHANGED <<originalImage, prompt, reads, svc>>

\* handleSubmit after its await: the try's second statement, the catch and
\* the finally, for the settled call of requests[i].
handleSubmitResume(i, result) ==
    /\ IF result.kind = "resolved"
       THEN /\ editedImageUrl' = Some(DataUrl(requests[i].mimeType, result.data))
            /\ resultOf' = Some([file |-> requests[i].file,
                                 beforeChoice |-> requests[i].beforeChoice])
            /\ error' = error
            /\ last' = [op |-> "requestSettles", outcome |-> "resolved"]
       ELSE /\ error' = Some(MsgEditFailed)
            /\ last' = [op |-> "requestSettles", outcome |-> "rejected"]
            /\ UNCHANGED <<editedImageUrl, resultOf>>
    /\ isLoading' = FALSE
    /\ requests' = Remove(requests, i)
    /\ UNCHANGED <<originalImage, prompt, reads, svc>>

\* The model call of requests[i] settles and the two async functions run
\* on from their awaits.
RequestSettles ==
    \E i \in 1..Len(requests) : \E result \in SettledResults :
        handleSubmitResume(i, result)

Next ==
    \/ SelectFile
    \/ FileReadResolves
    \/ FileReadRejects
    \/ ClickRemove
    \/ EditPrompt
    \/ ClickGenerate
    \/ RequestSettles

Spec == Init /\ [][Next]_vars

\* handleSubmit called whatever the Generate button's disabled attribute says.
CallHandleSubmit == handleSubmit

NextDirect ==
    \/ SelectFile
    \/ FileReadResolves
    \/ FileReadRejects
    \/ ClickRemove
    \/ EditPrompt
    \/ CallHandleSubmit
    \/ RequestSettles

SpecDirect == Init /\ [][NextDirect]_vars

\* Every model call settles, and the event loop runs the handlers on.
FairSpec == Spec /\ WF_vars(RequestSettles)

----------------------------------------------------------------------------
(* editImageWithGemini on its own, over every response *)

InitService ==
    /\ originalImage = Null
    /\ editedImageUrl = Null
    /\ prompt = <<>>
    /\ isLoading = FALSE
    /\ error = Null
    /\ reads = <<>>
    /\ requests = <<>>
    /\ resultOf = Null
    /\ last = [op |-> "init", outcome |-> "none"]
    /\ svc \in [response : Responses, result : {NotCalled}]

CallService ==
    /\ svc.result = NotCalled
    /\ svc' = [svc EXCEPT !.result = editImageWithGemini(svc.response)]
    /\ UNCHANGED appVars

NextService == CallService

SpecService == InitService /\ [][NextService]_vars

----------------------------------------------------------------------------
(* Properties *)

\* A prompt with nothing but whitespace in it (the empty prompt included).
IsBlank(s) == \A i \in 1..Len(s) : s[i] \in Whitespace

\* A declared type that begins with the six characters "image/".
IsImageType(t) == Len(t) >= 6 /\ \A i \in 1..6 : t[i] = ImagePrefix[i]

\* Indices of the parts that carry inlineData.
InlineIndices(ps) == {i \in 1..Len(ps) : ps[i].inlineData}

FirstInline(ps) == CHOOSE i \in InlineIndices(ps) : \A j \in InlineIndices(ps) : i <= j

\* C1: whenever handleSubmit runs with no image loaded or with an empty or
\* whitespace-only prompt, it issues no call, shows the missing-inputs
\* message and leaves originalImage, editedImageUrl, prompt and isLoading
\* as they were.
C1_SubmitBlocked ==
    [][(last'.op = "handleSubmit" /\ (originalImage = Null \/ IsBlank(prompt)))
        => /\ requests' = requests
           /\ error' = Some(MsgMissingInputs)
           /\ UNCHANGED <<originalImage, editedImageUrl, prompt, isLoading>>]_vars

C1_Witness ==
    /\ last = [op |-> "handleSubmit", outcome |-> "MissingInputs"]
    /\ originalImage # Null
    /\ prompt # <<>>
    /\ IsBlank(prompt)
    /\ error = Some(MsgMissingInputs)
    /\ requests = <<>>

\* C2: selecting a file whose declared type does not start with "image/"
\* only sets the invalid-file message: originalImage, editedImageUrl, prompt
\* and isLoading keep their values and no read of the file is started.
C2_InvalidFileType ==
    [][\A file \in Files :
        (~IsImageType(file.type) /\ originalImage = Null /\ handleFileChange(file))
        => /\ error' = Some(MsgInvalidFile)
           /\ UNCHANGED <<originalImage, editedImageUrl, prompt, isLoading, reads>>]_vars

C2_Witness ==
    /\ last = [op |-> "handleFileChange", outcome |-> "InvalidFileType"]
    /\ error = Some(MsgInvalidFile)
    /\ prompt # <<>>
    /\ editedImageUrl # Null
    /\ reads = <<>>

\* C3: when the response's parts contain at least one part with inlineData,
\* editImageWithGemini resolves with the data of the first such part in list
\* order, whatever text parts precede it and whatever inline parts follow.
C3_FirstMatch ==
    (svc.result # NotCalled /\ ~svc.response.threw
        /\ svc.response.shape = "parts" /\ InlineIndices(svc.response.parts) # {})
    => svc.result = Resolved(svc.response.parts[FirstInline(svc.response.parts)].data)

C3_Witness ==
    /\ svc.response.parts = <<TextPart, InlinePart(DataFoo), InlinePart(DataBar)>>
    /\ svc.result = Resolved(DataFoo)

\* C4: when the model call returns and the response has no part with
\* inlineData, editImageWithGemini rejects with the message "No image data
\* found in the API response.", not with the message of a failed call.
C4_NoImagePart ==
    (svc.result # NotCalled /\ ~svc.response.threw
        /\ InlineIndices(PartsOf(svc.response)) = {})
    => svc.result.kind = "rejected" /\ svc.result.message = MsgNoImageData

\* C5: editedImageUrl is null right after a valid image file is accepted
\* and right after a submission passes validation, and the result that next
\* fills it comes from a request issued after the latest image was chosen.
C5_ResultCleared ==
    [][/\ (last'.op = "handleFileChange" /\ last'.outcome = "accepted")
            => editedImageUrl' = Null
       /\ (last'.op = "handleSubmit" /\ last'.outcome = "requested")
            => editedImageUrl' = Null
       /\ (editedImageUrl = Null /\ editedImageUrl' # Null)
            => ~resultOf'[1].beforeChoice]_vars

\* C6: when the call of a submission rejects, the handler sets the error to
\* "Failed to edit image. Please try again.", clears isLoading, leaves
\* editedImageUrl null and does not touch originalImage or prompt.
C6_RejectHandled ==
    [][(last'.op = "requestSettles" /\ last'.outcome = "rejected")
        => /\ error' = Some(MsgEditFailed)
           /\ ~isLoading'
           /\ editedImageUrl' = Null
           /\ originalImage' = originalImage
           /\ prompt' = prompt]_vars

C6_Witness ==
    /\ last = [op |-> "requestSettles", outcome |-> "rejected"]
    /\ error = Some(MsgEditFailed)
    /\ ~isLoading
    /\ editedImageUrl = Null
    /\ originalImage # Null

\* C7: a failed read of an accepted image file leaves the error state set
\* to a message.
C7_ReadFailureSurfaced ==
    [][(last'.op = "fileRead" /\ last'.outcome = "ReadFailure")
        => error' # Null]_vars

\* C8: at most one edit request is in flight, isLoading is true while one
\* is, and every Generate click starts exactly one call from a state with
\* none in flight.
C8_OneOutstanding ==
    /\ [](Len(requests) <= 1 /\ (requests # <<>> => isLoading))
    /\ [][last'.op = "handleSubmit"
            => requests = <<>> /\ Len(requests') = 1]_vars

C8_Witness ==
    /\ Len(requests) = 1
    /\ isLoading
    /\ originalImage = Null
    /\ reads # <<>>

\* C9: a submission that passes validation sets isLoading; isLoading is true
\* only while its request is in flight; when the request settles the handler
\* sets exactly one of editedImageUrl and error; and isLoading always
\* becomes false again.
C9_LoadingEnds ==
    /\ [][(last'.op = "handleSubmit" /\ originalImage # Null /\ ~IsBlank(prompt))
            => isLoading']_vars
    /\ [](isLoading => requests # <<>>)
    /\ [][last'.op = "requestSettles"
            => /\ ~isLoading'
               /\ editedImageUrl = Null
               /\ \/ editedImageUrl' # Null /\ error' = error
                  \/ editedImageUrl' = Null /\ error' = Some(MsgEditFailed)
                        /\ error # error']_vars
    /\ (isLoading ~> ~isLoading)

C9_Witness ==
    /\ last = [op |-> "requestSettles", outcome |-> "resolved"]
    /\ ~isLoading
    /\ originalImage = Null
    /\ editedImageUrl # Null
    /\ error = Null

\* C10: whenever a result is displayed, an image is loaded and it is the
\* file the result was requested for.
C10_ResultMatchesImage ==
    editedImageUrl # Null
    => originalImage # Null /\ originalImage[1].file = resultOf[1].file

====
